---- MODULE Spec2Model ----
(***************************************************************************)
(* SecAuditAI: the orchestrator (core/app.py) with its stub scanners       *)
(* (scanners/*.py), the monitor's scan over the plugin registry            *)
(* (monitor.py, plugins/__init__.py), the scanner plugins' scan() entry    *)
(* points (plugins/scanners/*.py), the rule engine (core/rules.py) and the *)
(* risk score (utils.py, monitoring.py).                                   *)
(*                                                                         *)
(* Python values are encoded as follows.  A dict is a function whose       *)
(* domain is its key set; a list is a sequence; None, the empty dict and   *)
(* the other atoms are strings.  A call is recorded in lastCall (the       *)
(* arguments) and lastRet (raised: the exception class or "none";          *)
(* returned: whether a value came back; value: that value).  request is    *)
(* what the caller holds: the arguments of its scan_multi_cloud /          *)
(* scan_hybrid_cloud calls, a custom_rules list, or a list of findings to  *)
(* score.  rules is RuleEngine.rules, files the rule files export_rules    *)
(* has written, orchRules the orchestrator's own rule catalog.             *)
(* Monitor._run_scan returns None; the results dict it hands to the        *)
(* report generator is lastCall.report.  plugin_scanners is                *)
(* PluginManager.scanners, a dict in insertion order: a sequence of        *)
(* [key, plugin] entries.  threads holds, for each thread that is inside   *)
(* a RuleEngine or PluginManager method, the method, its arguments, its    *)
(* position and its locals.  A risk score is kept as an integer number of  *)
(* hundredths.                                                             *)
(***************************************************************************)
EXTENDS Integers, Sequences, FiniteSets, TLC

VARIABLES request, orchRules, lastCall, lastRet, rules, files, plugin_scanners, threads,
          monitor, access

vars == <<request, orchRules, lastCall, lastRet, rules, files, plugin_scanners, threads,
          monitor, access>>

\* ------------------------------------------------------------------ bounds
MaxProviders == 2

\* ------------------------------------------------------------ Python atoms
None == "None"
Missing == "<missing>"
EmptyDict == "{}"
RegionDict == "{region: us-east-1}"
NotADict == "'not-a-dict'"
EmptyMap == << >>

Raise(exc) == [raised |-> exc, returned |-> FALSE, value |-> EmptyMap]
Return(v) == [raised |-> "none", returned |-> TRUE, value |-> v]

\* dict.get(k, default)
DictGet(d, k, default) == IF k \in DOMAIN d THEN d[k] ELSE default

\* d[k] = v
DictSet(d, k, v) == (k :> v) @@ d

Range(s) == {s[i] : i \in DOMAIN s}

\* ------------------------------------------------------- stub scanners
\* `config or {}`: None and the empty dict are falsy
IsFalsy(c) == c \in {None, EmptyDict}
IsDict(c) == c \in {EmptyDict, RegionDict}

\* scanners/aws.py, azure.py, gcp.py, on_prem.py: scan(config)
\* builds (config or {}) | kwargs with kwargs == {} and wraps it
StubScan(scanner, config) ==
    IF ~IsFalsy(config) /\ ~IsDict(config)
    THEN Raise("TypeError")
    ELSE LET effective == IF IsFalsy(config) THEN EmptyDict ELSE config
         IN IF scanner = "OnPremScanner"
            THEN Return([environment |-> "on_prem", config |-> effective,
                         findings |-> << >>])
            ELSE Return([provider |-> CASE scanner = "AWSScanner" -> "aws"
                                       [] scanner = "AzureScanner" -> "azure"
                                       [] OTHER -> "gcp",
                         config |-> effective, findings |-> << >>])

\* ------------------------------------------------------- orchestrator
cloud_scanners ==
    ("aws" :> "AWSScanner") @@ ("azure" :> "AzureScanner") @@ ("gcp" :> "GCPScanner")

hybrid_scanners ==
    ("aws" :> "AWSScanner") @@ ("azure" :> "AzureScanner") @@ ("on_prem" :> "OnPremScanner")

RECURSIVE resolve_rules(_, _, _, _)
resolve_rules(store, rule_ids, i, resolved) ==
    IF i > Len(rule_ids) THEN resolved
    ELSE resolve_rules(store, rule_ids, i + 1,
                       IF rule_ids[i] \in DOMAIN store
                       THEN DictSet(resolved, rule_ids[i], store[rule_ids[i]])
                       ELSE resolved)

\* the fan-out loop of scan_multi_cloud / scan_hybrid_cloud: results
\* collected so far and the exception that ended the loop, if any
RECURSIVE ScanLoop(_, _, _, _, _)
ScanLoop(scanners, names, config, i, results) ==
    IF i > Len(names) THEN [raised |-> "none", results |-> results]
    ELSE IF names[i] \notin DOMAIN scanners
         THEN [raised |-> "ValueError", results |-> results]
         ELSE LET r == StubScan(scanners[names[i]],
                                DictGet(config, names[i], EmptyDict))
              IN IF r.raised # "none"
                 THEN [raised |-> r.raised, results |-> results]
                 ELSE ScanLoop(scanners, names, config, i + 1,
                               DictSet(results, names[i], r.value))

\* FanOut with the provider's config slice not handed to its scanner
FanOut_NoSlice(scanners, names, config) ==
    LET loop == ScanLoop(scanners, names, EmptyMap, 1, EmptyMap)
    IN IF loop.raised # "none" THEN Raise(loop.raised) ELSE Return(loop.results)

\* FanOut that answers with what it has when the loop raises
FanOut_Partial(scanners, names, config) ==
    LET loop == ScanLoop(scanners, names,
                         IF config.isNone THEN EmptyMap ELSE config.items,
                         1, EmptyMap)
    IN Return(loop.results)

\* FanOut that hands every scanner the slice of the first name in the list
FanOut_FirstSlice(scanners, names, config) ==
    LET items == IF config.isNone THEN EmptyMap ELSE config.items
        shared == [n \in Range(names) |-> DictGet(items, names[1], EmptyDict)]
        loop == ScanLoop(scanners, names, shared, 1, EmptyMap)
    IN IF loop.raised # "none" THEN Raise(loop.raised) ELSE Return(loop.results)

\* an exception leaving the loop leaves the function: results is dropped
FanOut(scanners, names, config) ==
    LET loop == ScanLoop(scanners, names,
                         IF config.isNone THEN EmptyMap ELSE config.items,
                         1, EmptyMap)
    IN IF loop.raised # "none" THEN Raise(loop.raised) ELSE Return(loop.results)

\* `if rules:` / `if services:` / `if components:`
Truthy(arg) == ~arg.isNone /\ DOMAIN arg.items # {}

AttachIf(cond, results, key, v) == IF cond THEN DictSet(results, key, v) ELSE results

\* scan_multi_cloud that attaches an entry for every requested rule id
scan_multi_cloud_AllIds(store, providers, config, ruleIds, services) ==
    LET fan == FanOut(cloud_scanners, providers, config)
    IN IF ~fan.returned THEN fan
       ELSE Return(AttachIf(Truthy(services),
                     AttachIf(Truthy(ruleIds), fan.value, "rules",
                              [id \in Range(ruleIds.items) |->
                                  DictGet(store, id, None)]),
                     "services", services.items))

scan_multi_cloud(store, providers, config, ruleIds, services) ==
    LET fan == FanOut(cloud_scanners, providers, config)
    IN IF ~fan.returned THEN fan
       ELSE Return(AttachIf(Truthy(services),
                     AttachIf(Truthy(ruleIds), fan.value, "rules",
                              resolve_rules(store, ruleIds.items, 1, EmptyMap)),
                     "services", services.items))

Checked == [status |-> "checked"]

scan_hybrid_cloud(store, environments, config, ruleIds, components, flags) ==
    LET fan == FanOut(hybrid_scanners, environments, config)
    IN IF ~fan.returned THEN fan
       ELSE Return(
              AttachIf(flags[3],
                AttachIf(flags[2],
                  AttachIf(flags[1],
                    AttachIf(Truthy(components),
                      AttachIf(Truthy(ruleIds), fan.value, "rules",
                               resolve_rules(store, ruleIds.items, 1, EmptyMap)),
                      "components", components.items),
                    "connectivity", Checked),
                  "security_groups", Checked),
                "firewalls", Checked))

\* ------------------------------------------------------- scanner plugins
\* the file system the scanners look at
ExistingPaths == {"/proj", "/proj/notes.txt", "/empty"}
SourceDirs == {"/proj"}
Files == {"/proj/notes.txt"}
Paths == ExistingPaths \cup {"", "/nonexistent"}

ErrorFinding(check_id, resource, message) ==
    [check_id |-> check_id, resource |-> resource, status |-> "error",
     message |-> message]

ErrorSummary == [total |-> 1, failed |-> 0, passed |-> 0, error |-> 1]

CountStatus(findings, status) ==
    Cardinality({i \in DOMAIN findings : findings[i].status = status})

StatusSummary(findings) ==
    [total |-> Len(findings), failed |-> CountStatus(findings, "failed"),
     passed |-> CountStatus(findings, "passed"),
     error |-> CountStatus(findings, "error")]

\* findings the checks of a scanner may produce on a target they can read
SbomFindings ==
    {<< >>,
     <<[check_id |-> "sbom-001", resource |-> "lib@1.0", status |-> "failed",
        message |-> "Known vulnerability", severity |-> "high"]>>,
     <<[check_id |-> "sbom-002", resource |-> "lib@1.0", status |-> "failed",
        message |-> "Outdated dependency", severity |-> "medium"],
       [check_id |-> "sbom-003", resource |-> "lib@1.0", status |-> "warning",
        message |-> "Unknown license", severity |-> "low"]>>}

\* SBOMScanner.scan(target, path=path); path = None when the keyword is
\* not given.  syft: what _generate_sbom got from the tool; checks: whether
\* the three checks ran or raised (network failure in _fetch_nvd_data).
SBOMScanner_scan(target, path, syft, checks, findings) ==
    IF path = None \/ path = "" \/ path \notin ExistingPaths
    THEN Return([scanner |-> "sbom", target |-> target,
                 findings |-> <<ErrorFinding("sbom-000", path, "Invalid path provided")>>,
                 summary |-> ErrorSummary])
    ELSE IF syft = "error"
    THEN Return([scanner |-> "sbom", target |-> target,
                 findings |-> <<ErrorFinding("sbom-000", path, "Error generating SBOM")>>,
                 summary |-> ErrorSummary])
    ELSE IF checks = "raise"
    THEN Return([scanner |-> "sbom", target |-> target,
                 findings |-> <<ErrorFinding("sbom-000", path, "Error scanning SBOM")>>,
                 summary |-> ErrorSummary])
    ELSE Return([scanner |-> "sbom", target |-> target, findings |-> findings,
                 summary |-> StatusSummary(findings)])

\* what Prowler may print when it exits with 0 and prints JSON
ProwlerOutputs ==
    {[findings |-> << >>],
     [findings |-> << >>, summary |-> [total |-> 0]],
     [findings |-> <<[check_id |-> "iam_1", status |-> "FAIL", severity |-> "HIGH"]>>,
      summary |-> [total |-> 1]],
     [findings |-> <<[check_id |-> "s3_1", status |-> "PASS", severity |-> "LOW"],
                     [check_id |-> "iam_1", status |-> "FAIL", severity |-> "HIGH"]>>,
      summary |-> [total |-> 2]]}

\* "hangs": the tool never exits
ProwlerRuns == {"not_found", "nonzero_exit", "bad_json", "hangs", "ok"}

\* a call that never comes back: nothing is raised and nothing is returned
Hang == [raised |-> "none", returned |-> FALSE, value |-> EmptyMap]

\* CloudScanner._run_prowler: subprocess.run is called without a timeout, so
\* it waits for the tool for as long as the tool runs
run_prowler(run, output) ==
    CASE run = "not_found" -> Return([findings |-> << >>, summary |-> EmptyMap])
      [] run = "nonzero_exit" -> Raise("RuntimeError")
      [] run = "bad_json" -> Raise("RuntimeError")
      [] run = "hangs" -> Hang
      [] OTHER -> Return(output)

\* CloudScanner._format_findings: the checks whose status is FAIL, each
\* rebuilt from check.get(...) (title, description, remediation, resource_id,
\* region and evidence are copied the same way and left out here)
RECURSIVE format_findings_from(_, _)
format_findings_from(checks, i) ==
    IF i > Len(checks) THEN << >>
    ELSE IF checks[i].status # "FAIL" THEN format_findings_from(checks, i + 1)
         ELSE <<[check_id |-> checks[i].check_id, status |-> checks[i].status,
                 severity |-> checks[i].severity]>>
              \o format_findings_from(checks, i + 1)

format_findings(prowler_output) == format_findings_from(prowler_output.findings, 1)

\* CloudScanner.scan_cloud, called without profile, region and framework
scan_cloud(provider, run, output) ==
    LET prowler == run_prowler(run, output)
    IN IF ~prowler.returned THEN prowler
       ELSE Return([scan_id |-> "scan-<now>", timestamp |-> "<now>",
                    provider |-> provider, region |-> None,
                    compliance_framework |-> None,
                    summary |-> DictGet(prowler.value, "summary", EmptyMap),
                    findings |-> format_findings(prowler.value)])

\* CloudScanner.scan_kubernetes, called without cluster and namespace
scan_kubernetes(run, output) ==
    LET prowler == run_prowler(run, output)
    IN IF ~prowler.returned THEN prowler
       ELSE Return([scan_id |-> "k8s-scan-<now>", timestamp |-> "<now>",
                    cluster |-> "default-cluster", namespace |-> None,
                    compliance_framework |-> None,
                    summary |-> DictGet(prowler.value, "summary", EmptyMap),
                    findings |-> format_findings(prowler.value)])

\* CloudScanner.scan
CloudScanner_scan(target, run, output) ==
    IF target \in {"aws", "azure", "gcp"} THEN scan_cloud(target, run, output)
    ELSE IF target = "kubernetes" THEN scan_kubernetes(run, output)
    ELSE Raise("ValueError")

CodeFindings ==
    {<< >>,
     <<[check_id |-> "code-001", resource |-> "/proj/main.py:3", status |-> "failed",
        message |-> "Potential hardcoded secret found", severity |-> "high"]>>}

CountSeverity(findings, severity) ==
    Cardinality({i \in DOMAIN findings : findings[i].severity = severity})

\* CodeScanner._summarize_findings
summarize_findings(findings) ==
    [total_findings |-> Len(findings),
     high_severity |-> CountSeverity(findings, "high"),
     medium_severity |-> CountSeverity(findings, "medium"),
     low_severity |-> CountSeverity(findings, "low")]

\* CodeScanner.scan(target, path=path): path = kwargs.get("path") or target
CodeScanner_scan(target, pathArg, findings) ==
    LET path == IF pathArg \in {None, ""} THEN target ELSE pathArg
    IN IF path = "" THEN Raise("ValueError")
       ELSE IF path \notin ExistingPaths THEN Raise("ValueError")
       ELSE IF path \in Files THEN Raise("ValueError")
       ELSE IF path \notin SourceDirs THEN Raise("ValueError")
       ELSE Return([scanner |-> "code", target |-> target, findings |-> findings,
                    summary |-> summarize_findings(findings)])

\* AzureScanner.scan(target, **kwargs): creds = both keywords given
AzureScanner_scan(target, creds, api) ==
    IF ~creds
    THEN Return([scanner |-> "azure", target |-> target,
                 findings |-> <<ErrorFinding("azure-000", "Azure Configuration",
                                             "Missing subscription ID or resource group")>>,
                 summary |-> ErrorSummary])
    ELSE IF api = "raise"
    THEN Return([scanner |-> "azure", target |-> target,
                 findings |-> <<ErrorFinding("azure-000", "Azure Scan",
                                             "Error during Azure scan")>>,
                 summary |-> ErrorSummary])
    ELSE Return([scanner |-> "azure", target |-> target, findings |-> << >>,
                 summary |-> StatusSummary(<< >>)])

\* AWSScanner.scan(target, **kwargs): session = "no_client" when boto3
\* cannot build the session or a client (raised outside the try blocks),
\* "api_error" when the API calls fail inside them
AWSScanner_scan(target, session) ==
    IF session = "no_client" THEN Raise("BotoCoreError")
    ELSE LET findings ==
                IF session = "api_error"
                THEN <<ErrorFinding("aws-001", "s3", "Error listing buckets"),
                       ErrorFinding("aws-002", "ec2", "Error checking security groups")>>
                ELSE << >>
         IN Return([scanner |-> "aws", target |-> target, findings |-> findings,
                    summary |-> StatusSummary(findings)])

\* PluginManager._load_plugins: the registry in registration order
LoadedPlugins == <<"AWSScanner", "AzureScanner", "CodeScanner", "SBOMScanner">>

\* scanner.scan(target) as Monitor._run_scan calls it: no keywords
MonitorScan(scanner, target, session) ==
    CASE scanner = "AWSScanner" -> AWSScanner_scan(target, session)
      [] scanner = "AzureScanner" -> AzureScanner_scan(target, FALSE, "ok")
      [] scanner = "CodeScanner" -> CodeScanner_scan(target, None, << >>)
      [] OTHER -> SBOMScanner_scan(target, None, "ok", "ok", << >>)

\* Monitor._run_scan: the results dict handed to the report generator
RECURSIVE run_scan(_, _, _, _, _)
run_scan(scanners, target, session, i, results) ==
    IF i > Len(scanners) THEN results
    ELSE LET r == MonitorScan(scanners[i], target, session)
         IN run_scan(scanners, target, session, i + 1,
                     IF r.returned THEN DictSet(results, scanners[i], r.value)
                     ELSE results)

\* ------------------------------------------------------- plugin registry
\* a plugin object: what get_name() and get_description() return, and
\* which object it is
Plugin(name, description, instance) ==
    [name |-> name, description |-> description, instance |-> instance]

Entry(key, plugin) == [key |-> key, plugin |-> plugin]

Keys(registry) == {registry[i].key : i \in DOMAIN registry}

\* register_plugin that keeps the plugin a name already has
register_plugin_KeepFirst(registry, plugin) ==
    IF plugin.name \in Keys(registry) THEN registry
    ELSE Append(registry, Entry(plugin.name, plugin))

\* PluginManager.register_plugin: self.scanners[plugin.get_name()] = plugin;
\* a key the dict has keeps its place, a new key goes last
register_plugin(registry, plugin) ==
    IF plugin.name \in Keys(registry)
    THEN [i \in DOMAIN registry |->
            IF registry[i].key = plugin.name THEN Entry(plugin.name, plugin)
            ELSE registry[i]]
    ELSE Append(registry, Entry(plugin.name, plugin))

\* PluginManager.get_plugin: self.scanners.get(name)
get_plugin(registry, name) ==
    IF name \in Keys(registry)
    THEN (CHOOSE e \in Range(registry) : e.key = name).plugin
    ELSE None

\* PluginManager.list_plugins
list_plugins(registry) ==
    [i \in DOMAIN registry |->
        [name |-> registry[i].plugin.name,
         description |-> registry[i].plugin.description]]

BuiltinPlugins ==
    <<Plugin("aws", "AWS infrastructure security scanner", "AWSScanner()"),
      Plugin("azure", "Azure infrastructure security scanner", "AzureScanner()"),
      Plugin("code", "Source code security scanner", "CodeScanner()"),
      Plugin("sbom", "Software Bill of Materials security scanner", "SBOMScanner()")>>

RECURSIVE register_all(_, _, _)
register_all(registry, plugins, i) ==
    IF i > Len(plugins) THEN registry
    ELSE register_all(register_plugin(registry, plugins[i]), plugins, i + 1)

\* PluginManager._load_plugins on the empty self.scanners
load_plugins == register_all(<< >>, BuiltinPlugins, 1)

\* no thread is inside a method
NoThreads == << >>

\* ---------------------------------------------------- real-time monitor
\* RealTimeMonitor.__init__; alert_threshold is kept in tenths (0.8 -> 8),
\* metrics maps a target type to its "checks" count, loops holds the monitor
\* threads ever started and thread is the index of the one in self._thread
RealTimeMonitor_init ==
    [check_interval |-> 60, alert_threshold |-> 8, max_alerts_per_hour |-> 10,
     metrics |-> EmptyMap, running |-> FALSE, thread |-> 0, loops |-> << >>]

\* self._thread is None
NoThread == 0

\* configure(): each argument is validated and stored in turn; an argument
\* is NoneArg when left out and Arg(value) otherwise
configure(m, check_interval, alert_threshold, max_alerts_per_hour) ==
    LET m1 == IF check_interval.isNone THEN m
              ELSE [m EXCEPT !.check_interval = check_interval.items]
        m2 == IF alert_threshold.isNone THEN m1
              ELSE [m1 EXCEPT !.alert_threshold = alert_threshold.items]
        m3 == IF max_alerts_per_hour.isNone THEN m2
              ELSE [m2 EXCEPT !.max_alerts_per_hour = max_alerts_per_hour.items]
    IN  IF ~check_interval.isNone /\ check_interval.items <= 0
        THEN [obj |-> m, ret |-> Raise("ValueError")]
        ELSE IF ~alert_threshold.isNone
                /\ ~(0 < alert_threshold.items /\ alert_threshold.items <= 10)
        THEN [obj |-> m1, ret |-> Raise("ValueError")]
        ELSE IF ~max_alerts_per_hour.isNone /\ max_alerts_per_hour.items <= 0
        THEN [obj |-> m2, ret |-> Raise("ValueError")]
        ELSE [obj |-> m3, ret |-> Return(None)]

valid_types == {"cloud", "container", "network"}

\* the checks start() makes before it looks at self._running
TargetsAccepted(targets) ==
    /\ targets # << >>
    /\ \A i \in DOMAIN targets :
           targets[i].type # Missing /\ targets[i].type \in valid_types

\* a monitor thread as start() creates it, threading.Thread(target=
\* self._monitor_loop, args=(targets, end_time)); expired means
\* time.time() >= end_time
NewLoop(targets, duration) ==
    [targets |-> targets, expired |-> duration <= 0, alive |-> TRUE,
     iterations |-> 0]

\* start() raising its flag before it checks the targets
start_FlagBeforeChecks(m, targets, duration) ==
    IF ~TargetsAccepted(targets)
    THEN [obj |-> [m EXCEPT !.running = TRUE], ret |-> Raise("ValueError")]
    ELSE IF m.running THEN [obj |-> m, ret |-> Return(None)]
    ELSE [obj |-> [m EXCEPT !.running = TRUE,
                            !.loops = Append(m.loops, NewLoop(targets, duration)),
                            !.thread = Len(m.loops) + 1],
          ret |-> Return(None)]

start(m, targets, duration) ==
    IF ~TargetsAccepted(targets) THEN [obj |-> m, ret |-> Raise("ValueError")]
    ELSE IF m.running THEN [obj |-> m, ret |-> Return(None)]
    ELSE [obj |-> [m EXCEPT !.running = TRUE,
                            !.loops = Append(m.loops, NewLoop(targets, duration)),
                            !.thread = Len(m.loops) + 1],
          ret |-> Return(None)]

\* stop(): the flag is cleared and the thread is joined; the loop sleeps at
\* most one second between two looks at the flag, less than the join timeout
stop(m) ==
    IF m.thread = NoThread THEN [m EXCEPT !.running = FALSE]
    ELSE [m EXCEPT !.running = FALSE,
                   !.loops[m.thread].alive = FALSE,
                   !.thread = NoThread]

\* _record_metrics: setdefault(type, {"checks": 0}) then checks += 1, target
\* by target
RECURSIVE record_metrics(_, _)
record_metrics(metrics, targets) ==
    IF targets = << >> THEN metrics
    ELSE LET type == Head(targets).type
         IN  record_metrics(DictSet(metrics, type, DictGet(metrics, type, 0) + 1),
                            Tail(targets))

\* one look of _monitor_loop at its condition: a check, or the end of the
\* thread
\* a loop whose check records only the first target
monitor_loop_FirstTarget(m, i) ==
    IF m.running /\ ~m.loops[i].expired
    THEN [m EXCEPT !.metrics = record_metrics(m.metrics, <<Head(m.loops[i].targets)>>),
                   !.loops[i].iterations = @ + 1]
    ELSE [m EXCEPT !.loops[i].alive = FALSE]

monitor_loop(m, i) ==
    IF m.running /\ ~m.loops[i].expired
    THEN [m EXCEPT !.metrics = record_metrics(m.metrics, m.loops[i].targets),
                   !.loops[i].iterations = @ + 1]
    ELSE [m EXCEPT !.loops[i].alive = FALSE]

\* get_metrics(): dict(self._metrics)
get_metrics(m) == m.metrics

\* ------------------------------------------------------- access control
\* no AccessControl object has been constructed
NoAccessControl == [roles |-> {}, permissions |-> EmptyMap]

\* AccessControl.__init__ with _validate_permissions; a permission list is
\* kept as the set of its members
AccessControl_init(roles, permissions) ==
    IF \E role \in roles : role \notin DOMAIN permissions
    THEN [obj |-> NoAccessControl, ret |-> Raise("ValueError")]
    ELSE [obj |-> [roles |-> roles, permissions |-> permissions],
          ret |-> Return(None)]

check_permission(ac, role, permission) ==
    IF role \notin ac.roles THEN FALSE
    ELSE permission \in DictGet(ac.permissions, role, {})

get_user_permissions(ac, roles) ==
    UNION {ac.permissions[role] : role \in roles \cap DOMAIN ac.permissions}

update_permissions(ac, role, permissions) ==
    IF role \notin ac.roles THEN [obj |-> ac, ret |-> Raise("ValueError")]
    ELSE [obj |-> [ac EXCEPT !.permissions = DictSet(@, role, permissions)],
          ret |-> Return(None)]

add_role(ac, role, permissions) ==
    IF role \in ac.roles THEN [obj |-> ac, ret |-> Raise("ValueError")]
    ELSE [obj |-> [roles |-> ac.roles \cup {role},
                   permissions |-> DictSet(ac.permissions, role, permissions)],
          ret |-> Return(None)]

remove_role(ac, role) ==
    IF role \notin ac.roles THEN [obj |-> ac, ret |-> Raise("ValueError")]
    ELSE IF role \notin DOMAIN ac.permissions
    THEN [obj |-> [ac EXCEPT !.roles = @ \ {role}], ret |-> Raise("KeyError")]
    ELSE [obj |-> [roles |-> ac.roles \ {role},
                   permissions |-> [r \in DOMAIN ac.permissions \ {role} |->
                                     ac.permissions[r]]],
          ret |-> Return(None)]

\* ------------------------------------------------------------- inputs
ProviderNames == {"aws", "azure", "gcp", "on_prem", "doesnotexist"}
ConfigKeys == {"aws", "azure"}
ConfigVals == {RegionDict, NotADict}

SeqsUpTo(S, n) == UNION {[1..k -> S] : k \in 0..n}
MapsOver(K, V) == UNION {[S -> V] : S \in SUBSET K}

NoneArg == [isNone |-> TRUE, items |-> EmptyMap]
Arg(x) == [isNone |-> FALSE, items |-> x]

ConfigArgs == {NoneArg} \cup {Arg(m) : m \in MapsOver(ConfigKeys, ConfigVals)}
RuleIds == {"r1"}
RuleIdArgs == {NoneArg, Arg(<<"r1", "r2">>)}
ServiceArgs == {NoneArg, Arg("aws" :> <<"s3">>)}
FlagArgs == {<<FALSE, FALSE, FALSE>>, <<TRUE, FALSE, TRUE>>, <<FALSE, TRUE, FALSE>>}

\* ------------------------------------------------------------ actions
\* the requests a caller may hold; `extra` is services or components
Requests ==
    [names : SeqsUpTo(ProviderNames, MaxProviders), config : ConfigArgs,
     rules : RuleIdArgs, extra : ServiceArgs]

\* add_rule that stores a rule whatever its id
SecAuditAI_add_rule_Unchecked(store, rule) ==
    [raised |-> "none", store |-> DictSet(store, rule.id, rule)]

\* SecAuditAI.add_rule: `not rule_id` holds for a missing and for an empty id
SecAuditAI_add_rule(store, rule) ==
    IF rule.id \in {Missing, ""}
    THEN [raised |-> "ValueError", store |-> store]
    ELSE [raised |-> "none", store |-> DictSet(store, rule.id, rule)]

OrchAddRule(id, body) ==
    LET rule == [id |-> id, body |-> body]
        r == SecAuditAI_add_rule(orchRules, rule)
    IN /\ lastCall' = [op |-> "orch_add_rule", rule |-> rule]
       /\ lastRet' = IF r.raised = "none" THEN Return(None) ELSE Raise(r.raised)
       /\ orchRules' = r.store
       /\ UNCHANGED <<request, rules, files, plugin_scanners, threads, monitor, access>>

ScanMultiCloud ==
    /\ lastCall' = [op |-> "scan_multi_cloud"]
    /\ lastRet' = scan_multi_cloud(orchRules, request.names, request.config,
                                   request.rules, request.extra)
    /\ UNCHANGED <<request, orchRules, rules, files, plugin_scanners, threads, monitor, access>>

ScanHybridCloud ==
    \E flags \in FlagArgs :
        /\ lastCall' = [op |-> "scan_hybrid_cloud", flags |-> flags]
        /\ lastRet' = scan_hybrid_cloud(orchRules, request.names, request.config,
                                        request.rules, request.extra, flags)
        /\ UNCHANGED <<request, orchRules, rules, files, plugin_scanners, threads, monitor, access>>

MonitorRunScan ==
    \E target \in {"/proj", "/nonexistent"}, session \in {"ok", "no_client"} :
        /\ lastCall' = [op |-> "monitor_run_scan", target |-> target,
                        session |-> session,
                        report |-> run_scan(LoadedPlugins, target, session, 1, EmptyMap)]
        /\ lastRet' = Return(None)
        /\ UNCHANGED <<request, orchRules, rules, files, plugin_scanners, threads, monitor, access>>

ScanSBOM ==
    \E target \in {"project", "image:latest"}, path \in Paths \cup {None}, syft \in {"ok", "error"},
       checks \in {"ok", "raise"}, findings \in SbomFindings :
        /\ lastCall' = [op |-> "sbom_scan", target |-> target, path |-> path,
                        tool |-> syft, checks |-> checks]
        /\ lastRet' = SBOMScanner_scan(target, path, syft, checks, findings)
        /\ UNCHANGED <<request, orchRules, rules, files, plugin_scanners, threads, monitor, access>>

ScanCloud ==
    \E target \in {"aws", "kubernetes", "mainframe"}, run \in ProwlerRuns,
       output \in ProwlerOutputs :
        /\ lastCall' = [op |-> "cloud_scan", target |-> target, tool |-> run,
                        output |-> output]
        /\ lastRet' = CloudScanner_scan(target, run, output)
        /\ UNCHANGED <<request, orchRules, rules, files, plugin_scanners, threads, monitor, access>>

ScanCode ==
    \E target \in {"", "/proj"}, path \in Paths \cup {None}, findings \in CodeFindings :
        /\ lastCall' = [op |-> "code_scan", target |-> target, path |-> path]
        /\ lastRet' = CodeScanner_scan(target, path, findings)
        /\ UNCHANGED <<request, orchRules, rules, files, plugin_scanners, threads, monitor, access>>

ScanAzure ==
    \E target \in {"azure"}, creds \in BOOLEAN, api \in {"ok", "raise"} :
        /\ lastCall' = [op |-> "azure_scan", target |-> target, creds |-> creds,
                        api |-> api]
        /\ lastRet' = AzureScanner_scan(target, creds, api)
        /\ UNCHANGED <<request, orchRules, rules, files, plugin_scanners, threads, monitor, access>>

ScanAWS ==
    \E target \in {"aws"}, session \in {"ok", "no_client", "api_error"} :
        /\ lastCall' = [op |-> "aws_scan", target |-> target, session |-> session]
        /\ lastRet' = AWSScanner_scan(target, session)
        /\ UNCHANGED <<request, orchRules, rules, files, plugin_scanners, threads, monitor, access>>

InitCall == [op |-> "init"]
NoRequest == [names |-> << >>, config |-> NoneArg, rules |-> NoneArg, extra |-> NoneArg]

InitScan ==
    /\ request \in Requests
    /\ orchRules = EmptyMap
    /\ lastCall = InitCall
    /\ lastRet = Return(None)
    /\ rules = EmptyMap
    /\ files = EmptyMap
    /\ monitor = RealTimeMonitor_init
    /\ access = NoAccessControl
    /\ plugin_scanners = load_plugins
    /\ threads = NoThreads

RuleBodies == {"v1", "v2"}

NextScan ==
    \/ \E id \in RuleIds \cup {Missing, ""}, body \in RuleBodies : OrchAddRule(id, body)
    \/ ScanMultiCloud
    \/ ScanHybridCloud
    \/ MonitorRunScan

SpecScan == InitScan /\ [][NextScan]_vars

\* the orchestrator's rule catalog with several ids: the caller adds rules
\* under r1 and r2 and asks for lists of ids that may also name r3
MaxRuleIds == 2
CatalogIds == {"r1", "r2"}
AskedIds == CatalogIds \cup {"r3"}

CatalogRequests ==
    [names : {<<"aws">>, <<"aws", "azure">>}, config : {NoneArg},
     rules : {NoneArg} \cup {Arg(l) : l \in SeqsUpTo(AskedIds, MaxRuleIds)},
     extra : {NoneArg}]

InitCatalog ==
    /\ request \in CatalogRequests
    /\ orchRules = EmptyMap
    /\ lastCall = InitCall
    /\ lastRet = Return(None)
    /\ rules = EmptyMap
    /\ files = EmptyMap
    /\ monitor = RealTimeMonitor_init
    /\ access = NoAccessControl
    /\ plugin_scanners = load_plugins
    /\ threads = NoThreads

NextCatalog ==
    \/ \E id \in CatalogIds \cup {Missing, ""}, body \in RuleBodies : OrchAddRule(id, body)
    \/ ScanMultiCloud
    \/ ScanHybridCloud

SpecCatalog == InitCatalog /\ [][NextCatalog]_vars

\* fan-out calls alone: the caller holds a provider list and a config, stores
\* rules and scans
InitSlices ==
    /\ request \in [names : SeqsUpTo(ProviderNames, MaxProviders),
                    config : ConfigArgs, rules : {NoneArg}, extra : {NoneArg}]
    /\ orchRules = EmptyMap
    /\ lastCall = InitCall
    /\ lastRet = Return(None)
    /\ rules = EmptyMap
    /\ files = EmptyMap
    /\ monitor = RealTimeMonitor_init
    /\ access = NoAccessControl
    /\ plugin_scanners = load_plugins
    /\ threads = NoThreads

NextSlices ==
    \/ \E body \in RuleBodies : OrchAddRule("r1", body)
    \/ ScanMultiCloud
    \/ ScanHybridCloud

SpecSlices == InitSlices /\ [][NextSlices]_vars

InitPlugins ==
    /\ request = NoRequest
    /\ orchRules = EmptyMap
    /\ lastCall = InitCall
    /\ lastRet = Return(None)
    /\ rules = EmptyMap
    /\ files = EmptyMap
    /\ monitor = RealTimeMonitor_init
    /\ access = NoAccessControl
    /\ plugin_scanners = load_plugins
    /\ threads = NoThreads

NextPlugins == ScanSBOM \/ ScanCloud \/ ScanCode \/ ScanAzure \/ ScanAWS

SpecPlugins == InitPlugins /\ [][NextPlugins]_vars

\* ------------------------------------------- plugin registry: actions
\* plugin objects a caller may register: two for a built-in name each,
\* two under a new name
CustomPlugins ==
    {Plugin(n, "Custom scanner", i) :
        n \in {"aws", "sbom", "custom"}, i \in {"plugin-1", "plugin-2"}}

PluginNames == {"aws", "sbom", "custom", "nosuch"}

RegisterPlugin ==
    \E plugin \in CustomPlugins :
        /\ lastCall' = [op |-> "register_plugin", plugin |-> plugin]
        /\ lastRet' = Return(None)
        /\ plugin_scanners' = register_plugin(plugin_scanners, plugin)
        /\ UNCHANGED <<request, orchRules, rules, files, threads, monitor, access>>

GetPlugin ==
    \E name \in PluginNames :
        /\ lastCall' = [op |-> "get_plugin", name |-> name]
        /\ lastRet' = Return(get_plugin(plugin_scanners, name))
        /\ UNCHANGED <<request, orchRules, rules, files, plugin_scanners, threads, monitor, access>>

ListPlugins ==
    /\ lastCall' = [op |-> "list_plugins"]
    /\ lastRet' = Return(list_plugins(plugin_scanners))
    /\ UNCHANGED <<request, orchRules, rules, files, plugin_scanners, threads, monitor, access>>

NextRegistry == RegisterPlugin \/ GetPlugin \/ ListPlugins

SpecRegistry == InitPlugins /\ [][NextRegistry]_vars

\* ------------------------------------------- terraform and image scans
MaxCustomRules == 2

\* {rule["id"]: rule for rule in custom_rules if "id" in rule}
RECURSIVE rule_map(_, _, _)
rule_map(custom_rules, i, map) ==
    IF i > Len(custom_rules) THEN map
    ELSE rule_map(custom_rules, i + 1,
                  IF custom_rules[i].id # Missing
                  THEN DictSet(map, custom_rules[i].id, custom_rules[i])
                  ELSE map)

\* TerraformScanner.scan({"directory": directory, "options": {}})
TerraformScan(directory) ==
    [tool |-> "terraform",
     config |-> [directory |-> directory, options |-> EmptyDict],
     findings |-> << >>]

\* ImageScanner.scan({"image": image, "options": {}}); `x or y` of a
\* falsy config image and no image keyword is None
ImageScan(image) ==
    [image |-> IF image \in {"", None} THEN None ELSE image,
     config |-> [image |-> image, options |-> EmptyDict],
     findings |-> << >>]

scan_terraform(directory, custom_rules, ci_cd, fail_on_high, output_format) ==
    IF directory \in {"", None} THEN Raise("ValueError")
    ELSE LET result == TerraformScan(directory)
             withRules == AttachIf(Truthy(custom_rules), result, "rules",
                                   rule_map(custom_rules.items, 1, EmptyMap))
         IN Return(IF ci_cd
                   THEN DictSet(DictSet(DictSet(withRules,
                            "ci_cd", [fail_on_high |-> fail_on_high]),
                            "sarif", "Generated in " \o output_format),
                            "fail_on_high", fail_on_high)
                   ELSE withRules)

scan_image(image, custom_rules, runtime, check_processes, check_network) ==
    LET data == ImageScan(image)
        withRules == AttachIf(Truthy(custom_rules), data, "rules",
                              rule_map(custom_rules.items, 1, EmptyMap))
    IN Return(AttachIf(runtime, withRules, "runtime",
                       [processes |-> check_processes, network |-> check_network]))

\* custom-rule dicts a caller may pass; the last one has no "id"
CustomRule(id, name) ==
    [id |-> id, name |-> name, description |-> "Test rule", severity |-> "high"]

CustomRules ==
    {CustomRule("iac-001", "Secure Storage"),
     CustomRule("iac-002", "Encrypted Volumes"),
     CustomRule(Missing, "No Id")}

CustomRuleArgs ==
    {NoneArg} \cup {Arg(l) : l \in SeqsUpTo(CustomRules, MaxCustomRules)}

ScanTerraform ==
    \E directory \in {"", "./terraform"}, ci_cd \in BOOLEAN, fail_on_high \in BOOLEAN :
        /\ lastCall' = [op |-> "scan_terraform", directory |-> directory,
                        ci_cd |-> ci_cd, fail_on_high |-> fail_on_high]
        /\ lastRet' = scan_terraform(directory, request.custom_rules, ci_cd,
                                     fail_on_high, "json")
        /\ UNCHANGED <<request, orchRules, rules, files, plugin_scanners, threads, monitor, access>>

ScanImage ==
    \E image \in {"nginx:latest"}, runtime \in BOOLEAN, check_processes \in BOOLEAN :
        /\ lastCall' = [op |-> "scan_image", image |-> image,
                        runtime |-> runtime, check_processes |-> check_processes]
        /\ lastRet' = scan_image(image, request.custom_rules, runtime,
                                 check_processes, FALSE)
        /\ UNCHANGED <<request, orchRules, rules, files, plugin_scanners, threads, monitor, access>>

\* the caller holds a custom_rules argument
InitIac ==
    /\ request \in [custom_rules : CustomRuleArgs]
    /\ orchRules = EmptyMap
    /\ lastCall = InitCall
    /\ lastRet = Return(None)
    /\ rules = EmptyMap
    /\ files = EmptyMap
    /\ monitor = RealTimeMonitor_init
    /\ access = NoAccessControl
    /\ plugin_scanners = load_plugins
    /\ threads = NoThreads

NextIac == ScanTerraform \/ ScanImage

SpecIac == InitIac /\ [][NextIac]_vars

\* ------------------------------------------------------- risk score
MaxFindings == 3

\* str.lower() on the severities findings carry
Lower(severity) ==
    CASE severity = "HIGH" -> "high"
      [] OTHER -> severity

\* weights.get(severity, 0) with weights = {"high": 3, "medium": 2, "low": 1}
Weight(severity) ==
    CASE severity = "high" -> 3
      [] severity = "medium" -> 2
      [] severity = "low" -> 1
      [] OTHER -> 0

\* finding.get("severity", "").lower()
SeverityOf(finding) ==
    Lower(IF finding.severity = Missing THEN "" ELSE finding.severity)

Min(a, b) == IF a <= b THEN a ELSE b

\* round(): the integer nearest to num / den, a tie going to the even one
RoundHalfEven(num, den) ==
    LET q == num \div den
        r == num % den
    IN IF 2 * r < den THEN q
       ELSE IF 2 * r > den THEN q + 1
       ELSE IF q % 2 = 0 THEN q ELSE q + 1

\* the score without the division by the number of findings
Normalized_PerFinding(total, count) ==
    RoundHalfEven(total * 10000, 3)

\* round(min(total / (3 * count), 1.0) * 100, 2), as hundredths of a point:
\* 6667 is the float 66.67
Normalized(total, count) ==
    RoundHalfEven(Min(total, 3 * count) * 10000, 3 * count)

\* the loop of calculate_risk_score from finding i on
RECURSIVE risk_loop(_, _, _, _)
risk_loop(findings, i, total, count) ==
    IF i > Len(findings) THEN [total |-> total, count |-> count]
    ELSE risk_loop(findings, i + 1, total + Weight(SeverityOf(findings[i])),
                   count + 1)

\* utils.calculate_risk_score
calculate_risk_score(findings) ==
    LET sums == risk_loop(findings, 1, 0, 0)
    IN IF sums.count = 0 THEN 0 ELSE Normalized(sums.total, sums.count)

RECURSIVE SumWeights(_, _)
SumWeights(findings, i) ==
    IF i > Len(findings) THEN 0
    ELSE Weight(SeverityOf(findings[i])) + SumWeights(findings, i + 1)

\* SecurityMonitor._calculate_risk
calculate_risk(findings) ==
    IF findings = << >> THEN 0
    ELSE Normalized(SumWeights(findings, 1), Len(findings))

\* SecurityMonitor.generate_metrics on results whose findings are these
generate_metrics(findings) ==
    [compliance_metrics |-> [checks |-> Len(findings), passed |-> 0],
     risk_metrics |-> [score |-> calculate_risk(findings)]]

\* core BaseScanner._calculate_risk_score: the float
\* (high * 1.0 + medium * 0.5 + low * 0.1) / max(1, high + medium + low),
\* kept as the fraction num / den
base_calculate_risk_score(high, medium, low) ==
    [num |-> 10 * high + 5 * medium + low, den |-> 10 * (IF high + medium + low >= 1 THEN high + medium + low ELSE 1)]

\* core BaseScanner._generate_summary: f.get("severity") == "high" and so on
generate_summary(findings) ==
    LET high == CountSeverity(findings, "high")
        medium == CountSeverity(findings, "medium")
        low == CountSeverity(findings, "low")
    IN [total_findings |-> Len(findings), high_severity |-> high,
        medium_severity |-> medium, low_severity |-> low,
        risk_score |-> base_calculate_risk_score(high, medium, low)]

Severities ==
    {"high", "HIGH", "medium", "low", "critical", "unknown", "info", Missing}

FindingSeqs == SeqsUpTo({[severity |-> sev] : sev \in Severities}, MaxFindings)

CalculateRiskScore ==
    /\ lastCall' = [op |-> "calculate_risk_score"]
    /\ lastRet' = Return(calculate_risk_score(request.findings))
    /\ UNCHANGED <<request, orchRules, rules, files, plugin_scanners, threads, monitor, access>>

MonitorCalculateRisk ==
    /\ lastCall' = [op |-> "_calculate_risk"]
    /\ lastRet' = Return(calculate_risk(request.findings))
    /\ UNCHANGED <<request, orchRules, rules, files, plugin_scanners, threads, monitor, access>>

GenerateMetrics ==
    /\ lastCall' = [op |-> "generate_metrics"]
    /\ lastRet' = Return(generate_metrics(request.findings))
    /\ UNCHANGED <<request, orchRules, rules, files, plugin_scanners, threads, monitor, access>>

GenerateSummary ==
    /\ lastCall' = [op |-> "_generate_summary"]
    /\ lastRet' = Return(generate_summary(request.findings))
    /\ UNCHANGED <<request, orchRules, rules, files, plugin_scanners, threads, monitor, access>>

\* the caller holds a list of findings
InitRisk ==
    /\ request \in [findings : FindingSeqs]
    /\ orchRules = EmptyMap
    /\ lastCall = InitCall
    /\ lastRet = Return(None)
    /\ rules = EmptyMap
    /\ files = EmptyMap
    /\ monitor = RealTimeMonitor_init
    /\ access = NoAccessControl
    /\ plugin_scanners = load_plugins
    /\ threads = NoThreads

NextRisk ==
    \/ CalculateRiskScore
    \/ MonitorCalculateRisk
    \/ GenerateMetrics
    \/ GenerateSummary

SpecRisk == InitRisk /\ [][NextRisk]_vars

\* ------------------------------------------------------- rule engine
\* A rule is a dict; a key the dict does not have is Missing.  A condition
\* is named by what it computes on a result dict.
Rule(id, name, description, severity, condition) ==
    [id |-> id, name |-> name, description |-> description,
     severity |-> severity, condition |-> condition]

\* RuleEngine.load_default_rules: the default_rules literal
default_rules ==
    ("api" :> <<Rule(Missing, "insecure_headers",
                     "Check for missing or insecure security headers", "high",
                     "insecure_headers"),
                Rule(Missing, "rate_limit_missing",
                     "Check for missing rate limiting", "medium",
                     "rate_limit_missing")>>)
    @@ ("container" :> <<Rule(Missing, "root_container",
                              "Check for containers running as root", "high",
                              "root_container")>>)
    @@ ("iac" :> <<Rule(Missing, "insecure_storage",
                        "Check for insecure storage configurations", "high",
                        "insecure_storage")>>)

\* dict.update(other)
DictUpdate(d, other) == other @@ d

\* RuleEngine.__init__: self.rules = {} then load_default_rules()
load_default_rules(store) == DictUpdate(store, default_rules)

Bool(b) == IF b THEN "true" ELSE "false"

\* rule["condition"](results): "true", "false" or "raise"
Eval(condition, results) ==
    CASE condition = "insecure_headers" ->
            IF "headers" \notin DOMAIN results THEN "raise"
            ELSE Bool(\E h \in DOMAIN results.headers :
                        ~results.headers[h].present \/ ~results.headers[h].secure)
      [] condition = "rate_limit_missing" ->
            IF "rate_limiting" \notin DOMAIN results THEN "raise"
            ELSE Bool(\E l \in DOMAIN results.rate_limiting :
                        ~results.rate_limiting[l].blocked)
      [] condition = "root_container" ->
            Bool("user" \in DOMAIN results /\ results.user = "root")
      [] condition = "insecure_storage" ->
            Bool("storage" \in DOMAIN results
                 /\ \E i \in DOMAIN results.storage : ~results.storage[i].encrypted)
      [] condition = "user_is_root" ->
            IF "user" \notin DOMAIN results THEN "raise"
            ELSE Bool(results.user = "root")
      [] OTHER -> "raise"

Violation(rule) ==
    [name |-> rule.name, description |-> rule.description, severity |-> rule.severity]

\* the body of the try block of apply_rules raises for this rule
TryRaises(rule, results) ==
    \/ rule.condition = Missing
    \/ Eval(rule.condition, results) = "raise"
    \/ /\ Eval(rule.condition, results) = "true"
       /\ Missing \in {rule.name, rule.description, rule.severity}

\* the loop of apply_rules from rule i on; the except handler formats
\* rule['name'], a KeyError for a rule without a name
RECURSIVE apply_loop(_, _, _, _)
apply_loop(ruleList, results, i, violations) ==
    IF i > Len(ruleList) THEN Return(violations)
    ELSE IF TryRaises(ruleList[i], results)
         THEN IF ruleList[i].name = Missing THEN Raise("KeyError")
              ELSE apply_loop(ruleList, results, i + 1, violations)
         ELSE apply_loop(ruleList, results, i + 1,
                         IF Eval(ruleList[i].condition, results) = "true"
                         THEN Append(violations, Violation(ruleList[i]))
                         ELSE violations)

\* apply_rules that returns at the first violation
apply_rules_FirstOnly(store, category, results) ==
    IF category \notin DOMAIN store THEN Return(<< >>)
    ELSE LET all == apply_loop(store[category], results, 1, << >>)
         IN IF all.returned /\ all.value # << >> THEN Return(<<Head(all.value)>>) ELSE all

\* RuleEngine.apply_rules
apply_rules(store, category, results) ==
    IF category \notin DOMAIN store THEN Return(<< >>)
    ELSE apply_loop(store[category], results, 1, << >>)

\* RuleEngine.add_rule: the store after the call
add_rule(store, category, rule) ==
    LET withCategory == IF category \notin DOMAIN store
                        THEN DictSet(store, category, << >>) ELSE store
    IN DictSet(withCategory, category, Append(withCategory[category], rule))

\* RuleEngine.remove_rule: rule["name"] is a KeyError for a rule without one
remove_rule(store, category, rule_name) ==
    IF category \notin DOMAIN store THEN [raised |-> "none", store |-> store]
    ELSE IF \E i \in DOMAIN store[category] : store[category][i].name = Missing
    THEN [raised |-> "KeyError", store |-> store]
    ELSE [raised |-> "none",
          store |-> DictSet(store, category,
                            SelectSeq(store[category],
                                      LAMBDA rule : rule.name # rule_name))]

\* RuleEngine.validate_rule
validate_rule(rule) ==
    \A field \in {"name", "description", "severity", "condition"} :
        rule[field] # Missing

\* RuleEngine.clear_rules: `if category:` is false for None and for ""
clear_rules(store, category) ==
    IF category \notin {None, ""} THEN DictSet(store, category, << >>)
    ELSE load_default_rules(EmptyMap)


\* a condition that is a function object (every condition the model names)
HasCallable(store) ==
    \E c \in DOMAIN store : \E i \in DOMAIN store[c] : store[c][i].condition # Missing

\* RuleEngine.export_rules: what open(file_path, 'w') and the dump leave in
\* the file.  json.dump stops with TypeError at the first function object,
\* after writing the text before it; yaml.dump writes a function as a
\* !!python/name tag.  Only a complete file without such tags can be read
\* back, so only such a file keeps its data here.
export_rules(store, file_path, format) ==
    IF format \notin {"json", "yaml"}
    THEN [raised |-> "ValueError", written |-> FALSE, file |-> EmptyMap]
    ELSE IF format = "json"
    THEN IF HasCallable(store)
         THEN [raised |-> "TypeError", written |-> TRUE,
               file |-> [text |-> "json-truncated", data |-> EmptyMap]]
         ELSE [raised |-> "none", written |-> TRUE,
               file |-> [text |-> "json", data |-> store]]
    ELSE IF HasCallable(store)
         THEN [raised |-> "none", written |-> TRUE,
               file |-> [text |-> "yaml-python-tags", data |-> EmptyMap]]
         ELSE [raised |-> "none", written |-> TRUE,
               file |-> [text |-> "yaml", data |-> store]]

\* Path(file_path).suffix
Suffix(file_path) ==
    CASE file_path = "rules.json" -> ".json"
      [] file_path = "rules.yaml" -> ".yaml"
      [] OTHER -> ".txt"

\* RuleEngine.load_rules_from_file: json.load reads JSON text only;
\* yaml.safe_load reads YAML and JSON text and rejects python tags
load_rules_from_file(store, fs, file_path) ==
    IF file_path \notin DOMAIN fs
    THEN [raised |-> "FileNotFoundError", store |-> store]
    ELSE IF Suffix(file_path) = ".json"
    THEN IF fs[file_path].text = "json"
         THEN [raised |-> "none", store |-> DictUpdate(store, fs[file_path].data)]
         ELSE [raised |-> "JSONDecodeError", store |-> store]
    ELSE IF Suffix(file_path) \in {".yaml", ".yml"}
    THEN IF fs[file_path].text \in {"json", "yaml"}
         THEN [raised |-> "none", store |-> DictUpdate(store, fs[file_path].data)]
         ELSE [raised |-> "YAMLError", store |-> store]
    ELSE [raised |-> "ValueError", store |-> store]

\* ---------------------------------------------- rule engine: inputs
MaxRules == 2

RootCheck == Rule("root-check", "root-check", "Container runs as root", "high",
                  "user_is_root")
RootMeta == Rule("root-check", "root-check", "Root check, metadata only", "low",
                 Missing)
NoName == Rule("no-name", Missing, "Rule without a name", "low", "always_raise")

AddableRules == {RootCheck, RootMeta, NoName}

UserRoot == ("user" :> "root")
UserApp == ("user" :> "app")
ApiResult ==
    ("headers" :> ("csp" :> [present |-> TRUE, secure |-> FALSE]))
    @@ ("rate_limiting" :> ("login" :> [blocked |-> TRUE]))
    @@ ("storage" :> <<[encrypted |-> FALSE]>>)

ResultInputs == {UserRoot, UserApp, EmptyMap, ApiResult}

\* ---------------------------------------------- rule engine: actions
AddRule(category, rule) ==
    /\ category \in DOMAIN rules => Len(rules[category]) < MaxRules
    /\ lastCall' = [op |-> "add_rule", category |-> category, rule |-> rule]
    /\ lastRet' = Return(None)
    /\ rules' = add_rule(rules, category, rule)
    /\ UNCHANGED <<request, orchRules, files, plugin_scanners, threads, monitor, access>>

RemoveRule(category, rule_name) ==
    LET r == remove_rule(rules, category, rule_name)
    IN /\ lastCall' = [op |-> "remove_rule", category |-> category,
                       name |-> rule_name]
       /\ lastRet' = IF r.raised = "none" THEN Return(None) ELSE Raise(r.raised)
       /\ rules' = r.store
       /\ UNCHANGED <<request, orchRules, files, plugin_scanners, threads, monitor, access>>

\* apply_rules that drops the rules it has evaluated from the store
ApplyRules_Consuming(category, results) ==
    /\ lastCall' = [op |-> "apply_rules", category |-> category,
                    results |-> results, resultsAfter |-> results]
    /\ lastRet' = apply_rules(rules, category, results)
    /\ rules' = IF category \in DOMAIN rules
                THEN DictSet(rules, category, << >>) ELSE rules
    /\ UNCHANGED <<request, orchRules, files, plugin_scanners, threads, monitor, access>>

\* resultsAfter: the caller's result dict when the call is over; the
\* conditions only read it (results.get, iteration), nothing assigns to it
ApplyRules(category, results) ==
    /\ lastCall' = [op |-> "apply_rules", category |-> category,
                    results |-> results, resultsAfter |-> results]
    /\ lastRet' = apply_rules(rules, category, results)
    /\ UNCHANGED <<request, orchRules, rules, files, plugin_scanners, threads, monitor, access>>

ValidateRule(rule) ==
    /\ lastCall' = [op |-> "validate_rule", rule |-> rule]
    /\ lastRet' = Return(validate_rule(rule))
    /\ UNCHANGED <<request, orchRules, rules, files, plugin_scanners, threads, monitor, access>>

ClearRules(category) ==
    /\ lastCall' = [op |-> "clear_rules", category |-> category]
    /\ lastRet' = Return(None)
    /\ rules' = clear_rules(rules, category)
    /\ UNCHANGED <<request, orchRules, files, plugin_scanners, threads, monitor, access>>

ExportRules(file_path, format) ==
    LET e == export_rules(rules, file_path, format)
    IN /\ lastCall' = [op |-> "export_rules", path |-> file_path,
                       format |-> format]
       /\ lastRet' = IF e.raised = "none" THEN Return(None) ELSE Raise(e.raised)
       /\ files' = IF e.written THEN DictSet(files, file_path, e.file) ELSE files
       /\ UNCHANGED <<request, orchRules, rules, plugin_scanners, threads, monitor, access>>

LoadRules(file_path) ==
    LET l == load_rules_from_file(rules, files, file_path)
    IN /\ lastCall' = [op |-> "load_rules_from_file", path |-> file_path]
       /\ lastRet' = IF l.raised = "none" THEN Return(None) ELSE Raise(l.raised)
       /\ rules' = l.store
       /\ UNCHANGED <<request, orchRules, files, plugin_scanners, threads, monitor, access>>

InitRules ==
    /\ request = NoRequest
    /\ orchRules = EmptyMap
    /\ lastCall = InitCall
    /\ lastRet = Return(None)
    /\ rules = load_default_rules(EmptyMap)
    /\ files = EmptyMap
    /\ monitor = RealTimeMonitor_init
    /\ access = NoAccessControl
    /\ plugin_scanners = load_plugins
    /\ threads = NoThreads

NextRules ==
    \/ \E c \in {"container", "custom"}, r \in AddableRules : AddRule(c, r)
    \/ \E c \in {"container", "custom", "nosuch"},
          n \in {"root_container", "root-check", "absent"} : RemoveRule(c, n)
    \/ \E c \in {"api", "container", "iac", "custom", "nosuch"},
          res \in ResultInputs : ApplyRules(c, res)
    \/ \E r \in AddableRules : ValidateRule(r)
    \/ \E c \in {None, "container"} : ClearRules(c)

SpecRules == InitRules /\ [][NextRules]_vars

RulePaths == {"rules.json", "rules.yaml"}

NextRuleFiles ==
    \/ \E r \in {RootMeta, RootCheck} : AddRule("custom", r)
    \/ \E c \in {None, "api", "container", "iac"} : ClearRules(c)
    \/ \E p \in RulePaths, f \in {"json", "yaml", "xml"} : ExportRules(p, f)
    \/ \E p \in RulePaths : LoadRules(p)

SpecRuleFiles == InitRules /\ [][NextRuleFiles]_vars

\* categories a caller may name: a default one, new ones, the empty string,
\* and None for an argument left out
ClearCategories == {None, "", "container", "custom", "nosuch"}

NextClear ==
    \/ \E c \in {"container", "custom", ""}, r \in {RootMeta, RootCheck} : AddRule(c, r)
    \/ \E n \in {"root_container", "root-check"} : RemoveRule("container", n)
    \/ \E c \in ClearCategories : ClearRules(c)
    \/ \E p \in RulePaths : ExportRules(p, "json")
    \/ \E p \in RulePaths : LoadRules(p)

SpecClear == InitRules /\ [][NextClear]_vars

\* ------------------------------------------------------------ threads
\* Threads call RuleEngine and PluginManager methods on shared objects; no
\* method takes a lock, so a thread switch may fall between any two of the
\* steps below (a dict store, a list.append and a dict.get are one step
\* each).  threads.frames[t] is thread t's call and its position in it;
\* threads.ids[c] names the list object self.rules[c] refers to, and
\* threads.next is the name the next new list gets.
MaxThreads == 2

Threads == 1..MaxThreads

Idle == [op |-> "idle", pc |-> "idle"]

\* the calls a thread may make, at their first step
ThreadCalls ==
    {[op |-> "add_rule", pc |-> "check", category |-> c, rule |-> RootCheck, ref |-> 0] :
        c \in {"container", "custom"}}
    \cup {[op |-> "add_rule", pc |-> "check", category |-> "custom",
           rule |-> RootMeta, ref |-> 0]}
    \cup {[op |-> "remove_rule", pc |-> "check", category |-> "container",
           name |-> "root_container", kept |-> << >>]}
    \cup {[op |-> "apply_rules", pc |-> "run", category |-> "container",
           results |-> UserRoot, result |-> None]}
    \cup {[op |-> "register_plugin", pc |-> "name", plugin |-> pl, key |-> None] :
            pl \in {Plugin("aws", "Custom scanner", "plugin-1"),
                    Plugin("aws", "Custom scanner", "plugin-2")}}
    \cup {[op |-> "get_plugin", pc |-> "run", name |-> "aws", result |-> None]}

Frame(t) == threads.frames[t]

At(t, op, pc) == Frame(t).op = op /\ Frame(t).pc = pc

\* thread t's frame becomes f
Move(t, f) == [threads EXCEPT !.frames[t] = f]

\* ... and self.rules[category] now refers to a new list object
MoveWithNewList(t, f, category) ==
    [threads EXCEPT !.frames[t] = f,
                    !.ids = DictSet(threads.ids, category, threads.next),
                    !.next = threads.next + 1]

BeginCall(t) ==
    /\ Frame(t) = Idle
    /\ \E call \in ThreadCalls : threads' = Move(t, call)
    /\ UNCHANGED <<request, orchRules, lastCall, lastRet, rules, files, plugin_scanners, monitor, access>>

\* add_rule: `if category not in self.rules:`
AddRuleCheck(t) ==
    /\ At(t, "add_rule", "check")
    /\ threads' = Move(t, [Frame(t) EXCEPT !.pc =
                      IF Frame(t).category \notin DOMAIN rules THEN "create" ELSE "load"])
    /\ UNCHANGED <<request, orchRules, lastCall, lastRet, rules, files, plugin_scanners, monitor, access>>

\* add_rule: `self.rules[category] = []`
AddRuleCreate(t) ==
    /\ At(t, "add_rule", "create")
    /\ rules' = DictSet(rules, Frame(t).category, << >>)
    /\ threads' = MoveWithNewList(t, [Frame(t) EXCEPT !.pc = "load"], Frame(t).category)
    /\ UNCHANGED <<request, orchRules, lastCall, lastRet, files, plugin_scanners, monitor, access>>

\* add_rule: the subscript `self.rules[category]` of the append statement
AddRuleLoad(t) ==
    /\ At(t, "add_rule", "load")
    /\ threads' = Move(t, [Frame(t) EXCEPT !.pc = "append",
                                           !.ref = threads.ids[Frame(t).category]])
    /\ UNCHANGED <<request, orchRules, lastCall, lastRet, rules, files, plugin_scanners, monitor, access>>

\* add_rule: `.append(rule)` on the list loaded; a list the dict no longer
\* refers to is garbage, and so is the rule appended to it
AddRuleAppend(t) ==
    /\ At(t, "add_rule", "append")
    /\ rules' = IF Frame(t).ref = threads.ids[Frame(t).category]
                THEN DictSet(rules, Frame(t).category,
                             Append(rules[Frame(t).category], Frame(t).rule))
                ELSE rules
    /\ threads' = Move(t, [Frame(t) EXCEPT !.pc = "done"])
    /\ UNCHANGED <<request, orchRules, lastCall, lastRet, files, plugin_scanners, monitor, access>>

\* remove_rule: `if category in self.rules:`
RemoveRuleCheck(t) ==
    /\ At(t, "remove_rule", "check")
    /\ threads' = Move(t, [Frame(t) EXCEPT !.pc =
                      IF Frame(t).category \in DOMAIN rules THEN "filter" ELSE "done"])
    /\ UNCHANGED <<request, orchRules, lastCall, lastRet, rules, files, plugin_scanners, monitor, access>>

\* remove_rule: the list comprehension builds the new list
RemoveRuleFilter(t) ==
    /\ At(t, "remove_rule", "filter")
    /\ threads' = Move(t, [Frame(t) EXCEPT !.pc = "store",
                              !.kept = SelectSeq(rules[Frame(t).category],
                                                 LAMBDA rule : rule.name # Frame(t).name)])
    /\ UNCHANGED <<request, orchRules, lastCall, lastRet, rules, files, plugin_scanners, monitor, access>>

\* remove_rule: `self.rules[category] = [...]`
RemoveRuleStore(t) ==
    /\ At(t, "remove_rule", "store")
    /\ rules' = DictSet(rules, Frame(t).category, Frame(t).kept)
    /\ threads' = MoveWithNewList(t, [Frame(t) EXCEPT !.pc = "done"], Frame(t).category)
    /\ UNCHANGED <<request, orchRules, lastCall, lastRet, files, plugin_scanners, monitor, access>>

ApplyRulesRun(t) ==
    /\ At(t, "apply_rules", "run")
    /\ threads' = Move(t, [Frame(t) EXCEPT !.pc = "done",
                              !.result = apply_rules(rules, Frame(t).category,
                                                     Frame(t).results)])
    /\ UNCHANGED <<request, orchRules, lastCall, lastRet, rules, files, plugin_scanners, monitor, access>>

\* register_plugin: plugin.get_name()
RegisterPluginName(t) ==
    /\ At(t, "register_plugin", "name")
    /\ threads' = Move(t, [Frame(t) EXCEPT !.pc = "store", !.key = Frame(t).plugin.name])
    /\ UNCHANGED <<request, orchRules, lastCall, lastRet, rules, files, plugin_scanners, monitor, access>>

\* register_plugin: `self.scanners[...] = plugin`
RegisterPluginStore(t) ==
    /\ At(t, "register_plugin", "store")
    /\ plugin_scanners' = register_plugin(plugin_scanners, Frame(t).plugin)
    /\ threads' = Move(t, [Frame(t) EXCEPT !.pc = "done"])
    /\ UNCHANGED <<request, orchRules, lastCall, lastRet, rules, files, monitor, access>>

GetPluginRun(t) ==
    /\ At(t, "get_plugin", "run")
    /\ threads' = Move(t, [Frame(t) EXCEPT !.pc = "done",
                              !.result = get_plugin(plugin_scanners, Frame(t).name)])
    /\ UNCHANGED <<request, orchRules, lastCall, lastRet, rules, files, plugin_scanners, monitor, access>>

InitThreads ==
    /\ request = NoRequest
    /\ orchRules = EmptyMap
    /\ lastCall = InitCall
    /\ lastRet = Return(None)
    /\ rules = load_default_rules(EmptyMap)
    /\ files = EmptyMap
    /\ monitor = RealTimeMonitor_init
    /\ access = NoAccessControl
    /\ plugin_scanners = load_plugins
    /\ threads = [frames |-> [t \in Threads |-> Idle],
                  ids |-> [c \in DOMAIN default_rules |-> 0],
                  next |-> 1]

NextThreads ==
    \E t \in Threads :
        \/ BeginCall(t)
        \/ AddRuleCheck(t) \/ AddRuleCreate(t) \/ AddRuleLoad(t) \/ AddRuleAppend(t)
        \/ RemoveRuleCheck(t) \/ RemoveRuleFilter(t) \/ RemoveRuleStore(t)
        \/ ApplyRulesRun(t)
        \/ RegisterPluginName(t) \/ RegisterPluginStore(t)
        \/ GetPluginRun(t)

SpecThreads == InitThreads /\ [][NextThreads]_vars

\* ------------------------------------------- real-time monitor: actions
MaxMonitorThreads == 2
MaxChecks == 2

Target(type) == [type |-> type]

\* target lists a caller may pass: empty, two accepted ones, one whose
\* target has no "type", one with a type outside valid_types
TargetLists ==
    {<< >>,
     <<Target("network")>>,
     <<Target("cloud"), Target("container")>>,
     <<Target(Missing)>>,
     <<Target("cloud"), Target("invalid")>>}

Durations == {0, 5}

RtmStart(targets, duration) ==
    /\ \/ ~TargetsAccepted(targets)
       \/ monitor.running
       \/ Len(monitor.loops) < MaxMonitorThreads
    /\ lastCall' = [op |-> "rtm_start", targets |-> targets, duration |-> duration]
    /\ monitor' = start(monitor, targets, duration).obj
    /\ lastRet' = start(monitor, targets, duration).ret
    /\ UNCHANGED <<request, orchRules, rules, files, plugin_scanners, threads, access>>

RtmStop ==
    /\ lastCall' = [op |-> "rtm_stop"]
    /\ monitor' = stop(monitor)
    /\ lastRet' = Return(None)
    /\ UNCHANGED <<request, orchRules, rules, files, plugin_scanners, threads, access>>

\* the monitor thread i looks at its loop condition
MonitorLoop(i) ==
    /\ monitor.loops[i].alive
    /\ \/ monitor.loops[i].iterations < MaxChecks
       \/ ~(monitor.running /\ ~monitor.loops[i].expired)
    /\ monitor' = monitor_loop(monitor, i)
    /\ UNCHANGED <<request, orchRules, lastCall, lastRet, rules, files, plugin_scanners, threads, access>>

\* time.time() reaches the end_time of thread i
DurationElapses(i) ==
    /\ monitor.loops[i].alive
    /\ ~monitor.loops[i].expired
    /\ monitor' = [monitor EXCEPT !.loops[i].expired = TRUE]
    /\ UNCHANGED <<request, orchRules, lastCall, lastRet, rules, files, plugin_scanners, threads, access>>

NextMonitor ==
    \/ \E targets \in TargetLists, duration \in Durations : RtmStart(targets, duration)
    \/ RtmStop
    \/ \E i \in DOMAIN monitor.loops : MonitorLoop(i)
    \/ \E i \in DOMAIN monitor.loops : DurationElapses(i)

SpecMonitor == InitPlugins /\ [][NextMonitor]_vars

\* the interpreter schedules every live thread: a monitor thread that can
\* look at its loop condition eventually does
SpecMonitorFair ==
    SpecMonitor /\ \A i \in 1..MaxMonitorThreads : WF_vars(i \in DOMAIN monitor.loops /\ MonitorLoop(i))

\* values a caller may pass to configure(); alert_threshold in tenths
CheckIntervals == {NoneArg, Arg(-1), Arg(30)}
AlertThresholds == {NoneArg, Arg(0), Arg(9), Arg(15)}
MaxAlerts == {NoneArg, Arg(0), Arg(5)}

RtmConfigure(check_interval, alert_threshold, max_alerts_per_hour) ==
    /\ lastCall' = [op |-> "rtm_configure", check_interval |-> check_interval,
                    alert_threshold |-> alert_threshold,
                    max_alerts_per_hour |-> max_alerts_per_hour]
    /\ monitor' = configure(monitor, check_interval, alert_threshold,
                            max_alerts_per_hour).obj
    /\ lastRet' = configure(monitor, check_interval, alert_threshold,
                            max_alerts_per_hour).ret
    /\ UNCHANGED <<request, orchRules, rules, files, plugin_scanners, threads, access>>

NextConfigure ==
    \E ci \in CheckIntervals, at \in AlertThresholds, ma \in MaxAlerts :
        RtmConfigure(ci, at, ma)

SpecConfigure == InitPlugins /\ [][NextConfigure]_vars

\* ------------------------------------------- access control: actions
RoleNames == {"admin", "user", "guest"}
Permissions == {"read", "write"}
PermissionLists == {{}, {"read"}, {"read", "write"}}

AddRole(role, permissions) ==
    /\ lastCall' = [op |-> "add_role", role |-> role, permissions |-> permissions]
    /\ access' = add_role(access, role, permissions).obj
    /\ lastRet' = add_role(access, role, permissions).ret
    /\ UNCHANGED <<request, orchRules, rules, files, plugin_scanners, threads, monitor>>

RemoveRole(role) ==
    /\ lastCall' = [op |-> "remove_role", role |-> role]
    /\ access' = remove_role(access, role).obj
    /\ lastRet' = remove_role(access, role).ret
    /\ UNCHANGED <<request, orchRules, rules, files, plugin_scanners, threads, monitor>>

UpdatePermissions(role, permissions) ==
    /\ lastCall' = [op |-> "update_permissions", role |-> role,
                    permissions |-> permissions]
    /\ access' = update_permissions(access, role, permissions).obj
    /\ lastRet' = update_permissions(access, role, permissions).ret
    /\ UNCHANGED <<request, orchRules, rules, files, plugin_scanners, threads, monitor>>

CheckPermission(role, permission) ==
    /\ lastCall' = [op |-> "check_permission", role |-> role,
                    permission |-> permission]
    /\ lastRet' = Return(check_permission(access, role, permission))
    /\ UNCHANGED <<request, orchRules, rules, files, plugin_scanners, threads, monitor, access>>

GetUserPermissions(roles) ==
    /\ lastCall' = [op |-> "get_user_permissions", roles |-> roles]
    /\ lastRet' = Return(get_user_permissions(access, roles))
    /\ UNCHANGED <<request, orchRules, rules, files, plugin_scanners, threads, monitor, access>>

\* the object the constructor returns for a role list over admin and user
\* and a permissions dict over RoleNames
InitAccess ==
    /\ request = NoRequest
    /\ orchRules = EmptyMap
    /\ lastCall = InitCall
    /\ lastRet = Return(None)
    /\ rules = EmptyMap
    /\ files = EmptyMap
    /\ monitor = RealTimeMonitor_init
    /\ \E roles \in SUBSET {"admin", "user"},
          permissions \in MapsOver(RoleNames, PermissionLists) :
           /\ AccessControl_init(roles, permissions).ret.returned
           /\ access = AccessControl_init(roles, permissions).obj
    /\ plugin_scanners = load_plugins
    /\ threads = NoThreads

NextAccess ==
    \/ \E role \in RoleNames, permissions \in PermissionLists : AddRole(role, permissions)
    \/ \E role \in RoleNames : RemoveRole(role)
    \/ \E role \in RoleNames, permissions \in PermissionLists :
          UpdatePermissions(role, permissions)
    \/ \E role \in RoleNames, permission \in Permissions : CheckPermission(role, permission)
    \/ \E roles \in SUBSET RoleNames : GetUserPermissions(roles)

SpecAccess == InitAccess /\ [][NextAccess]_vars

\* ------------------------------------------------------------ claims
IsScanCall == lastCall.op \in {"scan_multi_cloud", "scan_hybrid_cloud"}

\* the scanner table the last fan-out call used
CalledScanners ==
    IF lastCall.op = "scan_multi_cloud" THEN DOMAIN cloud_scanners
    ELSE DOMAIN hybrid_scanners

\* the config slice the request gives for provider p ({} when it gives none)
Slice(p) ==
    IF ~request.config.isNone /\ p \in DOMAIN request.config.items
    THEN request.config.items[p]
    ELSE EmptyDict

Requested == Range(request.names)
AllSupported == Requested \subseteq CalledScanners
SlicesAreDicts == \A p \in Requested : Slice(p) \in {EmptyDict, RegionDict}

\* C1: scan_multi_cloud over supported providers, without rules and
\* services, returns a map whose keys are exactly the requested names, each
\* mapped to the result of that provider's scanner on its config slice.
C1_KeysAreProviders ==
    (/\ lastCall.op = "scan_multi_cloud"
     /\ request.rules.isNone /\ request.extra.isNone
     /\ AllSupported /\ SlicesAreDicts)
    => /\ lastRet.returned
       /\ DOMAIN lastRet.value = Requested
       /\ \A p \in Requested :
              lastRet.value[p] = [provider |-> p, config |-> Slice(p),
                                  findings |-> << >>]

C1_Witness ==
    /\ lastCall.op = "scan_multi_cloud"
    /\ request.names = <<"aws", "azure">>
    /\ request.config = Arg("aws" :> RegionDict)
    /\ request.rules.isNone /\ request.extra.isNone
    /\ lastRet.returned
    /\ DOMAIN lastRet.value = {"aws", "azure"}

\* C2: a fan-out call whose list holds a name without a scanner returns no
\* result map, whatever the position of that name, and the error it raises
\* is the configuration error (ValueError) unless a scan before it raised.
C2_FailFast ==
    (IsScanCall /\ ~AllSupported)
    => /\ ~lastRet.returned
       /\ lastRet.raised # "none"
       /\ SlicesAreDicts => lastRet.raised = "ValueError"

C2_Witness ==
    /\ lastCall.op = "scan_multi_cloud"
    /\ request.names = <<"aws", "doesnotexist">>
    /\ lastRet.raised = "ValueError"
    /\ ~lastRet.returned

\* C3: when the scan of one target fails, a multi-target operation still
\* completes and reports a status for every requested target.
C3_PerTargetStatus ==
    /\ (IsScanCall /\ AllSupported /\ ~SlicesAreDicts)
       => lastRet.returned /\ Requested \subseteq DOMAIN lastRet.value
    /\ lastCall.op = "monitor_run_scan"
       => Range(LoadedPlugins) \subseteq DOMAIN lastCall.report

\* the sentinel check id of the scanner the last call ran
Sentinel ==
    CASE lastCall.op = "sbom_scan" -> "sbom-000"
      [] lastCall.op = "cloud_scan" -> "cloud_scanner-000"
      [] lastCall.op = "code_scan" -> "code-000"
      [] lastCall.op = "azure_scan" -> "azure-000"
      [] lastCall.op = "aws_scan" -> "aws-000"
      [] OTHER -> None

\* the last scan() could not complete for an expected reason
ExpectedFailure ==
    CASE lastCall.op = "sbom_scan" ->
            \/ lastCall.path \notin ExistingPaths
            \/ lastCall.tool = "error" \/ lastCall.checks = "raise"
      [] lastCall.op = "cloud_scan" ->
            \/ lastCall.target \notin {"aws", "azure", "gcp", "kubernetes"}
            \/ lastCall.tool # "ok"
      [] lastCall.op = "code_scan" ->
            (IF lastCall.path \in {None, ""} THEN lastCall.target ELSE lastCall.path)
                \notin SourceDirs
      [] lastCall.op = "azure_scan" -> ~lastCall.creds \/ lastCall.api = "raise"
      [] lastCall.op = "aws_scan" -> lastCall.session # "ok"
      [] OTHER -> FALSE

\* C4: a scan() that cannot complete for an expected reason never raises:
\* it returns exactly one finding, with status "error" and the scanner's
\* "-000" check id, and a summary with error = 1.
C4_ErrorFindingNotRaise ==
    ExpectedFailure
    => /\ lastRet.returned
       /\ Len(lastRet.value.findings) = 1
       /\ lastRet.value.findings[1].status = "error"
       /\ lastRet.value.findings[1].check_id = Sentinel
       /\ "error" \in DOMAIN lastRet.value.summary
       /\ lastRet.value.summary.error = 1

RulesOf(category) == IF category \in DOMAIN rules THEN rules[category] ELSE << >>

NamesOf(ruleList) == [i \in DOMAIN ruleList |-> ruleList[i].name]

\* C5: apply_rules tolerates a raising condition: the call returns, and the
\* violations are those of the rules whose condition returned true, in rule
\* order.
C5_PartialFailureTolerant ==
    lastCall.op = "apply_rules"
    => /\ lastRet.returned
       /\ NamesOf(lastRet.value)
            = NamesOf(SelectSeq(RulesOf(lastCall.category),
                                LAMBDA rule : Eval(rule.condition, lastCall.results) = "true"))

\* C6: rule ids are unique within each category.
C6_UniqueIds ==
    \A c \in DOMAIN rules : \A i, j \in DOMAIN rules[c] :
        (i # j /\ rules[c][i].id # Missing) => rules[c][i].id # rules[c][j].id

\* the key of the remove_rule call of this step names no rule of its category
RemovedKeyAbsent ==
    \A i \in DOMAIN RulesOf(lastCall'.category) :
        /\ rules[lastCall'.category][i].id # lastCall'.name
        /\ rules[lastCall'.category][i].name # lastCall'.name

\* C7: remove_rule with a key that is not in the category, or a category
\* that does not exist, raises nothing and leaves the rule store unchanged.
C7_RemoveAbsentIsNoOp ==
    [][(lastCall'.op = "remove_rule" /\ RemovedKeyAbsent)
       => (lastRet'.raised = "none" /\ rules' = rules)]_vars

HasAllFields(rule) ==
    \A field \in {"id", "name", "description", "severity", "condition"} :
        rule[field] # Missing

\* C8: add_rule of a rule missing one of id, name, description, severity,
\* condition fails and leaves the rule store unchanged.
C8_AddRuleValidates ==
    [][(lastCall'.op = "add_rule" /\ ~HasAllFields(lastCall'.rule))
       => (lastRet'.raised # "none" /\ rules' = rules)]_vars

\* a freshly constructed engine after add_rule("container", root-check)
FreshWithRootCheck ==
    rules = add_rule(load_default_rules(EmptyMap), "container", RootCheck)

\* C9 (as amended): on that engine apply_rules("container", {"user": "root"})
\* returns two violations, the default "root_container" then "root-check",
\* and apply_rules("container", {"user": "app"}) returns the empty list.
C9_RootCheckAfterDefault ==
    (FreshWithRootCheck /\ lastCall.op = "apply_rules"
     /\ lastCall.category = "container")
    => /\ lastCall.results = UserRoot
          => /\ lastRet.returned
             /\ NamesOf(lastRet.value) = <<"root_container", "root-check">>
       /\ lastCall.results = UserApp
          => lastRet.returned /\ lastRet.value = << >>

C9_Witness ==
    /\ FreshWithRootCheck
    /\ lastCall.op = "apply_rules" /\ lastCall.category = "container"
    /\ lastCall.results = UserRoot
    /\ lastRet.returned /\ Len(lastRet.value) = 2

\* C9 as stated: exactly one violation, named "root-check".
C9_OnlyRootCheck ==
    (FreshWithRootCheck /\ lastCall.op = "apply_rules"
     /\ lastCall.category = "container")
    => /\ lastCall.results = UserRoot
          => /\ lastRet.returned
             /\ NamesOf(lastRet.value) = <<"root-check">>
       /\ lastCall.results = UserApp
          => lastRet.returned /\ lastRet.value = << >>

\* ids and metadata of the rules of each category
Metadata(store) ==
    [c \in DOMAIN store |->
        {[id |-> store[c][i].id, name |-> store[c][i].name,
          description |-> store[c][i].description,
          severity |-> store[c][i].severity] : i \in DOMAIN store[c]}]

\* C10: export_rules to a file, then load_rules_from_file of that file:
\* both succeed and the store has the same rule ids and metadata per
\* category as before.
C10_RoundTrip ==
    [][(/\ lastCall.op = "export_rules"
        /\ Suffix(lastCall.path) = "." \o lastCall.format
        /\ lastCall'.op = "load_rules_from_file"
        /\ lastCall'.path = lastCall.path)
       => (/\ lastRet.raised = "none"
           /\ lastRet'.raised = "none"
           /\ Metadata(rules') = Metadata(rules))]_vars

\* the step is an apply_rules call with the arguments of the call before it
SameApplyAgain ==
    /\ lastCall.op = "apply_rules"
    /\ lastCall'.op = "apply_rules"
    /\ lastCall'.category = lastCall.category
    /\ lastCall'.results = lastCall.results

StoredUnder(registry, name) ==
    {registry[i].plugin : i \in {j \in DOMAIN registry : registry[j].key = name}}

\* C12: register_plugin(p) leaves p, and only p, under p's name and leaves
\* every other name as it was; get_plugin(n) returns the plugin stored under
\* n, None when there is none; list_plugins has one entry per stored name.
C12_LastRegistrationWins ==
    [][/\ lastCall'.op = "register_plugin"
          => /\ StoredUnder(plugin_scanners', lastCall'.plugin.name)
                    = {lastCall'.plugin}
             /\ \A n \in PluginNames \cup Keys(plugin_scanners) :
                    n # lastCall'.plugin.name
                    => StoredUnder(plugin_scanners', n)
                         = StoredUnder(plugin_scanners, n)
       /\ lastCall'.op = "get_plugin"
          => /\ lastRet'.returned
             /\ IF StoredUnder(plugin_scanners, lastCall'.name) = {}
                THEN lastRet'.value = None
                ELSE StoredUnder(plugin_scanners, lastCall'.name) = {lastRet'.value}
       /\ lastCall'.op = "list_plugins"
          => /\ Len(lastRet'.value) = Cardinality(Keys(plugin_scanners))
             /\ {lastRet'.value[i].name : i \in DOMAIN lastRet'.value}
                    = Keys(plugin_scanners)]_vars

\* get_plugin("aws") answers with the caller's plugin, registered after the
\* built-in one of that name
C12_Witness ==
    /\ lastCall.op = "get_plugin"
    /\ lastCall.name = "aws"
    /\ lastRet.value = Plugin("aws", "Custom scanner", "plugin-2")
    /\ Len(plugin_scanners) = 5

IsRiskCall == lastCall.op \in {"calculate_risk_score", "_calculate_risk"}

Replaced(findings, i, severity) ==
    [findings EXCEPT ![i] = [severity |-> severity]]

\* C14: replacing a finding of severity low, medium or unknown with one of
\* severity high or critical never lowers the risk score.
C14_RiskMonotonic ==
    lastCall.op = "calculate_risk_score"
    => \A i \in DOMAIN request.findings :
          request.findings[i].severity \in {"low", "medium", "unknown"}
          => \A sev \in {"high", "critical"} :
                calculate_risk_score(Replaced(request.findings, i, sev))
                    >= lastRet.value

IsPluginScan ==
    lastCall.op \in {"sbom_scan", "cloud_scan", "code_scan", "azure_scan", "aws_scan"}

\* the total count a summary carries ("total", or "total_findings" in the
\* code scanner's summary); -1 when it carries none
TotalOf(summary) ==
    IF "total" \in DOMAIN summary THEN summary.total
    ELSE IF "total_findings" \in DOMAIN summary THEN summary.total_findings
    ELSE -1

\* C15: every result a scanner's scan() returns carries a summary whose
\* total count is the number of findings of that result.
C15_SummaryTotal ==
    (IsPluginScan /\ lastRet.returned)
    => /\ "summary" \in DOMAIN lastRet.value
       /\ TotalOf(lastRet.value.summary) = Len(lastRet.value.findings)

SeverityEnum == {"low", "medium", "high", "critical", "unknown"}

\* C16: every finding a scanner returns, the synthetic error findings
\* included, has a non-empty check_id and a severity of the fixed enum.
C16_FindingWellFormed ==
    (IsPluginScan /\ lastRet.returned)
    => \A i \in DOMAIN lastRet.value.findings :
          LET finding == lastRet.value.findings[i]
          IN /\ "check_id" \in DOMAIN finding
             /\ finding.check_id \notin {"", None}
             /\ "severity" \in DOMAIN finding
             /\ finding.severity \in SeverityEnum

\* the custom_rules argument holds a rule dict without "id"
HasRuleWithoutId ==
    /\ ~request.custom_rules.isNone
    /\ \E i \in DOMAIN request.custom_rules.items :
          request.custom_rules.items[i].id = Missing

\* C17: scan_terraform / scan_image given a custom-rule dict without "id"
\* raises; it does not return a result whose rule map leaves the rule out.
C17_MalformedRuleRaises ==
    (lastCall.op \in {"scan_terraform", "scan_image"} /\ HasRuleWithoutId)
    => (~lastRet.returned /\ lastRet.raised # "none")

\* C18: SecAuditAI.add_rule of a rule without an id (missing or empty)
\* raises ValueError and leaves the catalog unchanged; with an id the rule
\* is stored under it, in place of an earlier rule of that id, and every
\* other entry stays as it was.
C18_OrchAddRule ==
    [][lastCall'.op = "orch_add_rule"
       => IF lastCall'.rule.id \in {Missing, ""}
          THEN lastRet'.raised = "ValueError" /\ orchRules' = orchRules
          ELSE /\ lastRet'.raised = "none"
               /\ DOMAIN orchRules' = DOMAIN orchRules \cup {lastCall'.rule.id}
               /\ orchRules'[lastCall'.rule.id] = lastCall'.rule
               /\ \A id \in DOMAIN orchRules \ {lastCall'.rule.id} :
                      orchRules'[id] = orchRules[id]]_vars

\* r1 has just been stored again, with r2 in the catalog
C18_Witness ==
    /\ lastCall.op = "orch_add_rule"
    /\ lastCall.rule = [id |-> "r1", body |-> "v2"]
    /\ lastRet.raised = "none"
    /\ DOMAIN orchRules = {"r1", "r2"}
    /\ orchRules["r1"].body = "v2"

\* C19: a fan-out call with a non-empty list of rule ids returns a "rules"
\* entry whose keys are the requested ids that are in the catalog, each with
\* the catalog's rule of that id; ids not in the catalog are left out.
C19_ResolvedRules ==
    (IsScanCall /\ AllSupported /\ Truthy(request.rules))
    => /\ lastRet.returned
       /\ "rules" \in DOMAIN lastRet.value
       /\ DOMAIN lastRet.value.rules
            = Range(request.rules.items) \cap DOMAIN orchRules
       /\ \A id \in DOMAIN lastRet.value.rules :
              lastRet.value.rules[id] = orchRules[id]

C19_Witness ==
    /\ lastCall.op = "scan_multi_cloud"
    /\ request.rules = Arg(<<"r3", "r1">>)
    /\ DOMAIN orchRules = {"r1", "r2"}
    /\ lastRet.returned
    /\ DOMAIN lastRet.value.rules = {"r1"}

\* every thread is outside a call
AllQuiet == \A t \in Threads : Frame(t).pc \in {"idle", "done"}

\* the threads that have made a call of one of these methods
Callers(ops) == {t \in Threads : Frame(t).op \in ops /\ Frame(t).pc = "done"}

\* the orders in which the threads of T can run one after the other
Orders(T) ==
    {order \in [1..Cardinality(T) -> T] :
        \A i, j \in DOMAIN order : i # j => order[i] # order[j]}

\* the rule store after the calls of `order` run one at a time from rule i on
RECURSIVE SerialRules(_, _, _)
SerialRules(order, i, store) ==
    IF i > Len(order) THEN store
    ELSE LET f == Frame(order[i])
         IN SerialRules(order, i + 1,
                IF f.op = "add_rule" THEN add_rule(store, f.category, f.rule)
                ELSE remove_rule(store, f.category, f.name).store)

RECURSIVE SerialPlugins(_, _, _)
SerialPlugins(order, i, registry) ==
    IF i > Len(order) THEN registry
    ELSE SerialPlugins(order, i + 1, register_plugin(registry, Frame(order[i]).plugin))

\* C20: when add_rule, remove_rule and apply_rules (register_plugin and
\* get_plugin) run in concurrent threads, the rule store (the registry) they
\* leave is the one some serial order of the writes leaves; no added rule is
\* lost.
C20_Serializable ==
    AllQuiet
    => /\ \E order \in Orders(Callers({"add_rule", "remove_rule"})) :
              rules = SerialRules(order, 1, load_default_rules(EmptyMap))
       /\ \E order \in Orders(Callers({"register_plugin"})) :
              plugin_scanners = SerialPlugins(order, 1, load_plugins)

\* C21: a scan whose external tool does not finish still returns, and its
\* result carries a finding with status "error".
C21_TimeoutIsError ==
    (/\ lastCall.op = "cloud_scan"
     /\ lastCall.target \in {"aws", "azure", "gcp", "kubernetes"}
     /\ lastCall.tool = "hangs")
    => /\ lastRet.returned
       /\ \E i \in DOMAIN lastRet.value.findings :
              lastRet.value.findings[i].status = "error"

\* the path CodeScanner.scan looks at: kwargs.get("path") or target
CodePath == IF lastCall.path \in {None, ""} THEN lastCall.target ELSE lastCall.path

\* C22: CodeScanner.scan and SBOMScanner.scan raise ValueError for a path
\* that does not exist, CodeScanner.scan also for a file that is not of a
\* supported language; no result is returned.
C22_InvalidPathRaises ==
    /\ (lastCall.op = "code_scan" /\ CodePath \notin ExistingPaths \ Files)
       => (lastRet.raised = "ValueError" /\ ~lastRet.returned)
    /\ (lastCall.op = "code_scan" /\ CodePath \in Files)
       => (lastRet.raised = "ValueError" /\ ~lastRet.returned)
    /\ (lastCall.op = "sbom_scan" /\ lastCall.path \notin ExistingPaths)
       => (lastRet.raised = "ValueError" /\ ~lastRet.returned)

\* C23 (as amended): a start() whose target list is empty, or holds a target
\* without "type" or with a type outside cloud/container/network, raises
\* ValueError and changes nothing: no monitor thread is created, and the
\* running flag, the thread and the metrics are what they were before the
\* call.
RejectedStart ==
    \E targets \in TargetLists, duration \in Durations :
        ~TargetsAccepted(targets) /\ RtmStart(targets, duration)

C23_RejectedStartChangesNothing ==
    [][RejectedStart => (lastRet'.raised = "ValueError" /\ ~lastRet'.returned
                          /\ monitor' = monitor)]_vars

\* C23 as stated: after such a call the monitor is not running
C23_RejectedStartNotRunning ==
    [][RejectedStart => (lastRet'.raised = "ValueError"
                          /\ ~monitor'.running
                          /\ monitor'.loops = monitor.loops
                          /\ monitor'.metrics = monitor.metrics)]_vars

\* a rejected start() on a monitor whose thread has recorded metrics
C23_Witness ==
    /\ lastCall.op = "rtm_start"
    /\ ~TargetsAccepted(lastCall.targets)
    /\ lastRet.raised = "ValueError"
    /\ monitor.running
    /\ monitor.metrics # EmptyMap

\* C24: a monitor thread started by start() eventually makes a check unless
\* it ends first (stopped, or its duration over, before its first look); once
\* the thread has made one check, stop() leaves get_metrics() with an entry
\* for the type of every target, whose check count is at least 1; and no step
\* removes an entry of the metrics or lowers its check count.
CheckedOnce ==
    /\ monitor.thread # NoThread
    /\ monitor.loops[monitor.thread].iterations >= 1

EveryTargetCounted(m, targets) ==
    \A k \in DOMAIN targets :
        /\ targets[k].type \in DOMAIN get_metrics(m)
        /\ get_metrics(m)[targets[k].type] >= 1

C24_MetricsRecorded ==
    /\ [][(RtmStop /\ CheckedOnce)
          => EveryTargetCounted(monitor', monitor.loops[monitor.thread].targets)]_vars
    /\ [][\A type \in DOMAIN monitor.metrics :
              /\ type \in DOMAIN monitor'.metrics
              /\ monitor'.metrics[type] >= monitor.metrics[type]]_vars
    /\ \A i \in 1..MaxMonitorThreads :
           (i \in DOMAIN monitor.loops /\ monitor.loops[i].alive)
           ~> (/\ i \in DOMAIN monitor.loops
               /\ (monitor.loops[i].iterations >= 1 \/ ~monitor.loops[i].alive))

\* stop() has just ended a thread that checked its two targets
C24_Witness ==
    /\ lastCall.op = "rtm_stop"
    /\ ~monitor.running
    /\ \E i \in DOMAIN monitor.loops :
           /\ ~monitor.loops[i].alive
           /\ ~monitor.loops[i].expired
           /\ monitor.loops[i].iterations >= 1
           /\ Len(monitor.loops[i].targets) = 2
    /\ DOMAIN get_metrics(monitor) = {"cloud", "container"}

\* C25: clear_rules() without a category leaves exactly the store a new
\* RuleEngine has (the api, container and iac defaults), whatever add_rule,
\* remove_rule, load_rules_from_file and clear_rules(category) calls came
\* before; clear_rules(category) leaves that category empty and every other
\* category as it was.
C25_ClearRules ==
    [][\A c \in ClearCategories :
          ClearRules(c)
          => IF c = None
             THEN rules' = load_default_rules(EmptyMap)
             ELSE /\ DOMAIN rules' = DOMAIN rules \cup {c}
                  /\ rules'[c] = << >>
                  /\ \A other \in DOMAIN rules \ {c} : rules'[other] = rules[other]]_vars

\* C26: per-provider scans are independent: the entry of provider p in the
\* result of a scan_multi_cloud or scan_hybrid_cloud call is the same as p's
\* entry in the result of any other such call that has the same config slice
\* for p (no slice counting as the empty config), whatever the other names in
\* the two lists, their slices, their order, the rules stored and the calls
\* made before.
OtherCalls ==
    [names : SeqsUpTo({"aws", "azure", "gcp", "on_prem"}, MaxProviders),
     config : ConfigArgs, hybrid : BOOLEAN]

SliceOf(config, p) ==
    DictGet(IF config.isNone THEN EmptyMap ELSE config.items, p, EmptyDict)

OtherScan(other) ==
    IF other.hybrid
    THEN scan_hybrid_cloud(EmptyMap, other.names, other.config, NoneArg, NoneArg,
                           <<FALSE, FALSE, FALSE>>)
    ELSE scan_multi_cloud(EmptyMap, other.names, other.config, NoneArg, NoneArg)

C26_Independent ==
    (lastCall.op \in {"scan_multi_cloud", "scan_hybrid_cloud"} /\ lastRet.returned)
    => \A other \in OtherCalls :
           OtherScan(other).returned
           => \A p \in Range(request.names) \cap Range(other.names) :
                  SliceOf(request.config, p) = SliceOf(other.config, p)
                  => lastRet.value[p] = OtherScan(other).value[p]

\* a scan of two providers, one with a slice and one without, after a rule
\* has been stored
C26_Witness ==
    /\ lastCall.op = "scan_multi_cloud"
    /\ lastRet.returned
    /\ request.names = <<"azure", "aws">>
    /\ SliceOf(request.config, "aws") = RegionDict
    /\ lastRet.value["aws"].config = RegionDict
    /\ lastRet.value["azure"].config = EmptyDict
    /\ orchRules # EmptyMap

\* C27: the three risk-score computations are one function: for the same
\* findings utils.calculate_risk_score, risk_metrics.score of
\* SecurityMonitor.generate_metrics and risk_score of the core
\* BaseScanner._generate_summary are the same number.
\* a score in hundredths of a point, as a fraction of points
Points(hundredths) == [num |-> hundredths, den |-> 100]

SameNumber(a, b) == a.num * b.den = b.num * a.den

ReturnedScore ==
    CASE lastCall.op = "calculate_risk_score" -> Points(lastRet.value)
      [] lastCall.op = "generate_metrics" -> Points(lastRet.value.risk_metrics.score)
      [] OTHER -> lastRet.value.risk_score

C27_OneRiskScore ==
    lastCall.op \in {"calculate_risk_score", "generate_metrics", "_generate_summary"}
    => /\ SameNumber(ReturnedScore, Points(calculate_risk_score(request.findings)))
       /\ SameNumber(ReturnedScore,
                     Points(generate_metrics(request.findings).risk_metrics.score))
       /\ SameNumber(ReturnedScore, generate_summary(request.findings).risk_score)

\* C28: the running flag agrees with the monitor thread in every state (the
\* flag is up exactly when the thread in self._thread is alive), at most one
\* monitor thread is alive, and a start() with accepted targets made while
\* no monitor thread is alive, also after a run that ended because its
\* duration was over, starts a new thread.
AliveLoops == {i \in DOMAIN monitor.loops : monitor.loops[i].alive}

ThreadAlive == monitor.thread # NoThread /\ monitor.loops[monitor.thread].alive

AcceptedStart ==
    \E targets \in TargetLists, duration \in Durations :
        TargetsAccepted(targets) /\ RtmStart(targets, duration)

C28_FlagAgreesWithThread ==
    /\ [](monitor.running <=> ThreadAlive)
    /\ [](Cardinality(AliveLoops) <= 1)
    /\ [][(AcceptedStart /\ AliveLoops = {})
          => /\ Len(monitor'.loops) = Len(monitor.loops) + 1
             /\ monitor'.loops[Len(monitor'.loops)].alive
             /\ monitor'.running]_vars

\* C29: configure is atomic on error: a call that raises ValueError leaves
\* check_interval, alert_threshold and max_alerts_per_hour as they were, also
\* when an argument before the rejected one was valid.
ConfigureCalled ==
    \E ci \in CheckIntervals, at \in AlertThresholds, ma \in MaxAlerts :
        RtmConfigure(ci, at, ma)

C29_ConfigureAtomic ==
    [][(ConfigureCalled /\ lastRet'.raised = "ValueError")
       => /\ monitor'.check_interval = monitor.check_interval
          /\ monitor'.alert_threshold = monitor.alert_threshold
          /\ monitor'.max_alerts_per_hour = monitor.max_alerts_per_hour]_vars

\* C30: the two permission queries agree in every state: a permission is in
\* get_user_permissions(R) exactly when check_permission(r, p) holds for some
\* role r of R, and a role that is not declared (removed, or never declared)
\* grants nothing through either query.
C30_QueriesAgree ==
    /\ \A R \in SUBSET RoleNames : \A p \in Permissions :
           p \in get_user_permissions(access, R)
           <=> \E r \in R : check_permission(access, r, p)
    /\ \A r \in RoleNames \ access.roles :
           /\ get_user_permissions(access, {r}) = {}
           /\ \A p \in Permissions : ~check_permission(access, r, p)

====
